---- MODULE Spec2Model ----
(***************************************************************************)
(* Model of the DataCrazy CPF bridge (src/app.py): the two flat-file       *)
(* stores (accounts.json, logs.json), the account and log routes, the      *)
(* webhook orchestrator and the pure CPF helpers it calls.                 *)
(*                                                                         *)
(* Every request runs on its own worker thread.  A thread's steps are the  *)
(* points where it touches shared state: a whole-file read, the truncation *)
(* done by open(..., 'w') once the lock is held, and the json.dump that    *)
(* fills the file before the lock is released.  Calls to the collaborators *)
(* (CRM fetch, CPF lookup, CRM send) touch no shared state; they are taken *)
(* in the step that follows the last shared access before them and their   *)
(* order is recorded in the request's event trace.                         *)
(***************************************************************************)
EXTENDS Integers, Sequences, FiniteSets, TLC

\* ------------------------------------------------------------------ bounds
\* each specification below bounds the worker threads serving requests, the
\* requests started in one behaviour and the seconds the clock may advance
NumThreads == 2      \* Spec
MaxOps == 3
MaxTime == 1
SeqOps == 3          \* SpecSeq (one thread)
SeqTime == 1
CapThreads == 2      \* SpecCap
CapOps == 2
CapTime == 1
HookOps == 2         \* SpecHook (one thread, the clock stands still)
AdminOps == 2        \* SpecAdmin (one thread, the clock stands still)
MaxNoise == 4        \* SpecText: noise digits after the CPF
CredOps == 3         \* SpecCred (one thread, the clock stands still)

\* ------------------------------------------------------- program constants
LOG_CAP == 500       \* add_log keeps logs_data[account_id][:500]
WINDOW == 11         \* length of a CPF candidate window
CNPJ_LEN == 14       \* digits-only length rejected as CNPJ
SCAN_LIMIT == 10     \* mensagens[:10]
PREVIEW_LEN == 10    \* crm_api_key[-10:], shown for keys longer than 10

None == "None"       \* Python's None, where a string or a record is expected

\* ============================================================ text helpers
\* A text is a sequence of one-character strings.
DigitChars == {"0", "1", "2", "3", "4", "5", "6", "7", "8", "9"}

IsDigit(c) == c \in DigitChars

\* int(c) for a digit character
DigitVal(c) ==
    CASE c = "0" -> 0 [] c = "1" -> 1 [] c = "2" -> 2 [] c = "3" -> 3
      [] c = "4" -> 4 [] c = "5" -> 5 [] c = "6" -> 6 [] c = "7" -> 7
      [] c = "8" -> 8 [] c = "9" -> 9

\* str(d) for d in 0..9
DigitChar(d) ==
    CASE d = 0 -> "0" [] d = 1 -> "1" [] d = 2 -> "2" [] d = 3 -> "3"
      [] d = 4 -> "4" [] d = 5 -> "5" [] d = 6 -> "6" [] d = 7 -> "7"
      [] d = 8 -> "8" [] d = 9 -> "9"

\* re.sub(r'[^\d]', '', texto)
RECURSIVE so_numeros(_)
so_numeros(texto) ==
    IF texto = <<>> THEN <<>>
    ELSE IF IsDigit(Head(texto)) THEN <<Head(texto)>> \o so_numeros(Tail(texto))
    ELSE so_numeros(Tail(texto))

RECURSIVE SumTo(_, _)
\* sum of f[i] for i in 1..n
SumTo(f, n) == IF n = 0 THEN 0 ELSE f[n] + SumTo(f, n - 1)

\* --------------------------------------------------- validar_cpf_rapido
\* d = 0 if soma % 11 < 2 else 11 - (soma % 11)
check_digit(soma) == IF soma % 11 < 2 THEN 0 ELSE 11 - (soma % 11)

\* cpf == cpf[0] * 11
todos_iguais(cpf) == \A i \in 1..Len(cpf) : cpf[i] = cpf[1]

validar_cpf_rapido(cpf) ==
    IF cpf = <<>> \/ Len(cpf) # WINDOW \/ todos_iguais(cpf) THEN FALSE
    ELSE
      LET soma1 == SumTo([i \in 1..9 |-> DigitVal(cpf[i]) * (11 - i)], 9)
          d1 == check_digit(soma1)
          soma2 == SumTo([i \in 1..10 |-> DigitVal(cpf[i]) * (12 - i)], 10)
          d2 == check_digit(soma2)
      IN  /\ cpf[10] = DigitChar(d1)
          /\ cpf[11] = DigitChar(d2)

\* --------------------------------------------------------- detectar_cnpj
\* The groups and the optional separators of
\* r'\d{2}[\.]?\d{3}[\.]?\d{3}[\/]?\d{4}[\-]?\d{2}'
CnpjGroups == <<2, 3, 3, 4, 2>>
CnpjSeps == <<".", ".", "/", "-">>

\* texto[i .. i+n-1] are n digits
DigitsAt(texto, i, n) ==
    /\ i + n - 1 <= Len(texto)
    /\ \A j \in i..(i + n - 1) : IsDigit(texto[j])

RECURSIVE MatchFrom(_, _, _)
\* the pattern's groups g.. match texto starting at position i
MatchFrom(texto, i, g) ==
    /\ DigitsAt(texto, i, CnpjGroups[g])
    /\ IF g = Len(CnpjGroups) THEN TRUE
       ELSE LET j == i + CnpjGroups[g]
            IN  \/ MatchFrom(texto, j, g + 1)
                \/ /\ j <= Len(texto)
                   /\ texto[j] = CnpjSeps[g]
                   /\ MatchFrom(texto, j + 1, g + 1)

\* re.search(padrao_cnpj, texto)
padrao_cnpj_search(texto) == \E i \in 1..Len(texto) : MatchFrom(texto, i, 1)

\* a detector that counts digits and never looks for the pattern
detectar_cnpj_contagem(texto) ==
    IF texto = <<>> THEN FALSE ELSE Len(so_numeros(texto)) = CNPJ_LEN

detectar_cnpj(texto) ==
    IF texto = <<>> THEN FALSE
    ELSE IF Len(so_numeros(texto)) = CNPJ_LEN THEN TRUE
    ELSE padrao_cnpj_search(texto)

\* ----------------------------------------------------------- extrair_cpf
\* the windows numeros[i:i+11], left to right
Janelas(numeros) == 1..(Len(numeros) - (WINDOW - 1))

\* an extractor that keeps the last valid window
extrair_cpf_ultima(texto) ==
    IF texto = <<>> THEN <<>>
    ELSE IF detectar_cnpj(texto) THEN <<>>
    ELSE LET numeros == so_numeros(texto)
             validas == {i \in Janelas(numeros) :
                            validar_cpf_rapido(SubSeq(numeros, i, i + 10))}
         IN  IF Len(numeros) = CNPJ_LEN \/ validas = {} THEN <<>>
             ELSE LET last == CHOOSE i \in validas : \A k \in validas : k <= i
                  IN  SubSeq(numeros, last, last + 10)

\* an extractor that returns the first window without validating it
extrair_cpf_sem_validar(texto) ==
    IF texto = <<>> THEN <<>>
    ELSE IF detectar_cnpj(texto) THEN <<>>
    ELSE LET numeros == so_numeros(texto)
         IN  IF Len(numeros) = CNPJ_LEN \/ Len(numeros) < WINDOW THEN <<>>
             ELSE SubSeq(numeros, 1, WINDOW)

\* result: a digit sequence, or <<>> for None
extrair_cpf(texto) ==
    IF texto = <<>> THEN <<>>
    ELSE IF detectar_cnpj(texto) THEN <<>>
    ELSE LET numeros == so_numeros(texto)
         IN  IF Len(numeros) = CNPJ_LEN THEN <<>>
             ELSE IF Len(numeros) >= WINDOW
                     /\ \E i \in Janelas(numeros) :
                           validar_cpf_rapido(SubSeq(numeros, i, i + 10))
                  THEN LET first == CHOOSE i \in Janelas(numeros) :
                                 /\ validar_cpf_rapido(SubSeq(numeros, i, i + 10))
                                 /\ \A k \in Janelas(numeros) :
                                       k < i => ~validar_cpf_rapido(SubSeq(numeros, k, k + 10))
                       IN  SubSeq(numeros, first, first + 10)
                  ELSE <<>>

\* ============================================================ JSON values
\* A JSON object read with dict.get / 'k in d' is a record over the keys the
\* code reads; Absent marks a key the object does not hold.
Absent == "<absent>"

\* d.get(k, default), given d[k]
GetOr(v, default) == IF v = Absent THEN default ELSE v

\* Python dicts keep insertion order and json keeps it on disk: a dict is a
\* sequence of [id, rec] items with distinct ids.
DictHas(d, k) == \E i \in 1..Len(d) : d[i].id = k

DictIdx(d, k) == CHOOSE i \in 1..Len(d) : d[i].id = k

DictGet(d, k) == d[DictIdx(d, k)].rec

\* d[k] = v
DictSet(d, k, v) ==
    IF DictHas(d, k) THEN [d EXCEPT ![DictIdx(d, k)].rec = v]
    ELSE Append(d, [id |-> k, rec |-> v])

\* del d[k]
DictDel(d, k) == SelectSeq(d, LAMBDA e : e.id # k)

DictKeys(d) == {d[i].id : i \in 1..Len(d)}

\* ============================================================== templates
\* A template is a sequence of lines, a line a sequence of tokens:
\*   lit   - literal text v; colon says the text, stripped, ends with ':'
\*   named - replacement field {v}
\*   pos   - positional replacement field ({0} or {})
Lit(v) == [k |-> "lit", v |-> v, colon |-> FALSE]
Label(v) == [k |-> "lit", v |-> v, colon |-> TRUE]
Field(v) == [k |-> "named", v |-> v, colon |-> FALSE]
Pos == [k |-> "pos", v |-> "0", colon |-> FALSE]

\* the value of data['message_template'] when the key is not in data
AbsentTemplate == << <<[k |-> "absent", v |-> Absent, colon |-> FALSE]>> >>

DEFAULT_TEMPLATE ==
    << <<Label("Ola! Encontrei os dados do CPF consultado:")>>,
       <<>>,
       <<Label("CPF: "), Field("cpf_mascarado")>>,
       <<Label("Nome: "), Field("nome")>>,
       <<Label("Nascimento: "), Field("nascimento")>>,
       <<Label("Sexo: "), Field("sexo")>>,
       <<Label("Mae: "), Field("nome_mae")>>,
       <<>>,
       <<Lit("Caso precise de mais informacoes, estou a disposicao.")>> >>

DEFAULT_MSG_ERRO == "Desculpe, nao foi possivel consultar os dados do CPF informado."

\* ============================================================= the stores
\* the record api_accounts (POST) stores
NovaConta(name, crm_api_key, created_at) ==
    [name |-> name,
     crm_api_key |-> crm_api_key,
     message_template |-> DEFAULT_TEMPLATE,
     formato_cpf |-> "mascarado",
     msg_erro |-> DEFAULT_MSG_ERRO,
     created_at |-> created_at]

\* f"acc_{datetime.now().strftime('%Y%m%d%H%M%S')}_{len(accounts)}"
gerar_acc_id(agora, accounts) == <<agora, Len(accounts)>>

\* [found, id, acc]: what get_account_by_api_key returns
NoAccount == [found |-> FALSE, id |-> <<>>, acc |-> NovaConta("", "", 0)]

Matches(accounts, api_key) ==
    {i \in 1..Len(accounts) : accounts[i].rec.crm_api_key = api_key}

\* a lookup that answers the first account when no credential matches
get_account_or_first(accounts, api_key) ==
    LET hit == IF Matches(accounts, api_key) = {} THEN 1..Len(accounts)
               ELSE Matches(accounts, api_key)
    IN  IF hit = {} THEN NoAccount
        ELSE LET i == CHOOSE j \in hit : \A m \in hit : j <= m
             IN  [found |-> TRUE, id |-> accounts[i].id, acc |-> accounts[i].rec]

\* get_account_by_api_key: the first item whose crm_api_key equals api_key
get_account_by_api_key(accounts, api_key) ==
    IF Matches(accounts, api_key) = {} THEN NoAccount
    ELSE LET i == CHOOSE j \in Matches(accounts, api_key) :
                     \A m \in Matches(accounts, api_key) : j <= m
         IN  [found |-> TRUE, id |-> accounts[i].id, acc |-> accounts[i].rec]

\* a PUT that takes the default name when the body names none
aplicar_put_repor(acc, data) ==
    [acc EXCEPT
       !.name = IF data.name # Absent THEN data.name ELSE "Nova Conta",
       !.crm_api_key =
           IF data.crm_api_key # Absent /\ data.crm_api_key # "" THEN data.crm_api_key ELSE @,
       !.message_template =
           IF data.message_template # AbsentTemplate THEN data.message_template ELSE @,
       !.formato_cpf = IF data.formato_cpf # Absent THEN data.formato_cpf ELSE @,
       !.msg_erro = IF data.msg_erro # Absent THEN data.msg_erro ELSE @]

\* the PUT branch of api_account: the fields data holds, merged into acc
aplicar_put(acc, data) ==
    [acc EXCEPT
       !.name = IF data.name # Absent THEN data.name ELSE @,
       !.crm_api_key =
           IF data.crm_api_key # Absent /\ data.crm_api_key # "" THEN data.crm_api_key ELSE @,
       !.message_template =
           IF data.message_template # AbsentTemplate THEN data.message_template ELSE @,
       !.formato_cpf = IF data.formato_cpf # Absent THEN data.formato_cpf ELSE @,
       !.msg_erro = IF data.msg_erro # Absent THEN data.msg_erro ELSE @]

\* the entry add_log inserts; seq is the model's serial number of the call
NovaEntrada(seq, agora, a, account_name) ==
    [seq |-> seq,
     data |-> agora,
     tipo |-> a.tipo,
     cpf |-> IF a.cpf = <<>> THEN <<"-">> ELSE a.cpf,
     status |-> a.status,
     detalhes |-> a.detalhes,
     lead_phone |-> IF a.lead_phone = "" THEN "-" ELSE a.lead_phone,
     lead_name |-> IF a.lead_name = "" THEN "-" ELSE a.lead_name,
     account_name |-> account_name]

\* a trim that keeps everything
manter_tudo(lista) == lista

\* logs_data[account_id][:500]
manter_ultimos(lista) ==
    IF Len(lista) > LOG_CAP THEN SubSeq(lista, 1, LOG_CAP) ELSE lista

\* the body of add_log between load_logs and save_logs
inserir_log(logs_data, account_id, entrada) ==
    LET antes == IF DictHas(logs_data, account_id) THEN DictGet(logs_data, account_id)
                 ELSE <<>>
    IN  DictSet(logs_data, account_id, manter_ultimos(<<entrada>> \o antes))

\* account_name when add_log is called without one
nome_da_conta(accounts, account_id) ==
    IF DictHas(accounts, account_id) THEN DictGet(accounts, account_id).name
    ELSE "Desconhecida"

\* ============================================================== formatter
\* a piece of rendered text: a literal or a value (txt), or CPF digits (cs)
Piece(txt, cs, colon) == [txt |-> txt, cs |-> cs, colon |-> colon]

PieceEmpty(p) == p.txt = "" /\ p.cs = <<>>

formatar_cpf(cpf, formato) ==
    IF formato = "completo"
      THEN SubSeq(cpf, 1, 3) \o <<".">> \o SubSeq(cpf, 4, 6) \o <<".">>
           \o SubSeq(cpf, 7, 9) \o <<"-">> \o SubSeq(cpf, 10, Len(cpf))
    ELSE IF formato = "parcial"
      THEN <<"*", "*", "*">> \o SubSeq(cpf, 4, 9) \o <<"*", "*">>
    ELSE SubSeq(cpf, 1, 3) \o <<".", "*", "*", "*", ".", "*", "*">>
         \o SubSeq(cpf, Len(cpf) - 3, Len(cpf) - 2) \o <<"-">>
         \o SubSeq(cpf, Len(cpf) - 1, Len(cpf))

\* the dict 'dados' formatar_mensagem builds, as the piece each key renders to
DadosKeys == {"cpf", "cpf_mascarado", "nome", "nascimento", "sexo", "nome_mae"}

montar_dados(dados_cpf, cpf, formato) ==
    [key \in DadosKeys |->
       CASE key = "cpf" -> Piece("", formatar_cpf(cpf, "completo"), FALSE)
         [] key = "cpf_mascarado" -> Piece("", formatar_cpf(cpf, formato), FALSE)
         [] key = "nome" ->
              Piece(GetOr(dados_cpf.NOME, GetOr(dados_cpf.nome, "Nao disponivel")), <<>>, FALSE)
         [] key = "nascimento" ->
              Piece(GetOr(dados_cpf.NASC, GetOr(dados_cpf.nascimento, "")), <<>>, FALSE)
         [] key = "sexo" ->
              Piece(GetOr(dados_cpf.SEXO, GetOr(dados_cpf.sexo, "")), <<>>, FALSE)
         [] key = "nome_mae" ->
              Piece(GetOr(dados_cpf.NOME_MAE, GetOr(dados_cpf.nome_mae, "")), <<>>, FALSE)]

\* all tokens of a template, in reading order
RECURSIVE Flatten(_)
Flatten(template) ==
    IF template = <<>> THEN <<>> ELSE Head(template) \o Flatten(Tail(template))

\* a replacement field str.format(**dados) cannot fill
Unfilled(tok) == tok.k = "pos" \/ (tok.k = "named" /\ tok.v \notin DadosKeys)

\* the exception template.format(**dados) raises: that of the first field it
\* cannot fill (KeyError for a name, IndexError for a position), or "none"
format_exception(template) ==
    LET toks == Flatten(template)
        bad == {i \in 1..Len(toks) : Unfilled(toks[i])}
    IN  IF bad = {} THEN "none"
        ELSE LET i == CHOOSE j \in bad : \A m \in bad : j <= m
             IN  IF toks[i].k = "pos" THEN "IndexError" ELSE "KeyError"

\* template.format(**dados) when it raises nothing
render(template, dados) ==
    [l \in 1..Len(template) |->
       [j \in 1..Len(template[l]) |->
          IF template[l][j].k = "named" THEN dados[template[l][j].v]
          ELSE Piece(template[l][j].v, <<>>, template[l][j].colon)]]

\* l.strip().endswith(':'), and l.strip() empty
LinhaVazia(l) == \A j \in 1..Len(l) : PieceEmpty(l[j])

TerminaEmDoisPontos(l) ==
    /\ ~LinhaVazia(l)
    /\ LET last == CHOOSE j \in 1..Len(l) :
                      /\ ~PieceEmpty(l[j])
                      /\ \A m \in (j + 1)..Len(l) : PieceEmpty(l[m])
       IN  l[last].colon

\* [l for l in mensagem.split('\n') if not l.strip().endswith(':') or not l.strip()]
filtrar_linhas(linhas) ==
    SelectSeq(linhas, LAMBDA l : ~TerminaEmDoisPontos(l) \/ LinhaVazia(l))

\* a reply text: the error text (erro) or rendered lines
Mensagem(erro, linhas) == [erro |-> erro, linhas |-> linhas]

\* a lookup record is falsy when None or an empty dict
LookupKeys == {"NOME", "nome", "NASC", "nascimento", "SEXO", "sexo", "NOME_MAE", "nome_mae"}

DadosFalsy(dados_cpf) ==
    \/ ~dados_cpf.some
    \/ \A key \in LookupKeys : dados_cpf[key] = Absent

\* formatar_mensagem: [raised, msg]
formatar_mensagem(dados_cpf, cpf, account) ==
    IF DadosFalsy(dados_cpf)
      THEN [raised |-> "none", msg |-> Mensagem(account.msg_erro, <<>>)]
    ELSE LET dados == montar_dados(dados_cpf, cpf, account.formato_cpf)
             exc == format_exception(account.message_template)
         IN  IF exc = "none"
               THEN [raised |-> "none",
                     msg |-> Mensagem("", filtrar_linhas(render(account.message_template, dados)))]
             ELSE IF exc = "KeyError"
               THEN [raised |-> "none",
                     msg |-> Mensagem("", filtrar_linhas(render(DEFAULT_TEMPLATE, dados)))]
             ELSE [raised |-> exc, msg |-> Mensagem("", <<>>)]

\* ========================================================== collaborators
\* What the network gives back is the environment's choice; the wrappers
\* below turn it into the value the webhook sees.

\* createdAt of a message: a string (rank s > 0, '' when missing: s = 0) or a
\* number; Python cannot order a string against a number
Criado(k, v) == [k |-> k, v |-> v]

Msg(received, createdAt, body) == [received |-> received, createdAt |-> createdAt, body |-> body]

\* buscar_mensagens_conversa: [some, list]; out is [ok, messages]
buscar_mensagens_conversa(api_key, out) ==
    IF api_key = "" THEN [some |-> FALSE, list |-> <<>>]
    ELSE IF ~out.ok THEN [some |-> FALSE, list |-> <<>>]
    ELSE [some |-> TRUE, list |-> SelectSeq(out.messages, LAMBDA m : m.received)]

\* consultar_cpf: the record, or one with some = FALSE for None;
\* out is [kind, status, success, data]
SemDados ==
    [some |-> FALSE, NOME |-> Absent, nome |-> Absent, NASC |-> Absent,
     nascimento |-> Absent, SEXO |-> Absent, sexo |-> Absent,
     NOME_MAE |-> Absent, nome_mae |-> Absent]

consultar_cpf(token, out) ==
    IF token = "" THEN SemDados
    ELSE IF out.kind = "http" /\ out.status = 200 /\ out.success THEN out.data
    ELSE SemDados

\* enviar_mensagem_conversa: "None", or the JSON value of the answer
\* ("empty" for a falsy one such as {}, "obj" for a truthy one);
\* out is "fail", "null", "empty" or "obj"
enviar_mensagem_conversa(api_key, out) ==
    IF api_key = "" THEN None
    ELSE IF out = "fail" \/ out = "null" THEN None
    ELSE out

\* ---------------------------------------------------------------- sorting
RemoveAt(seq, i) == SubSeq(seq, 1, i - 1) \o SubSeq(seq, i + 1, Len(seq))

RECURSIVE ordenar_desc(_)
\* sorted(mensagens, key=createdAt, reverse=True): stable, largest first
ordenar_desc(msgs) ==
    IF msgs = <<>> THEN <<>>
    ELSE LET i == CHOOSE j \in 1..Len(msgs) :
                    /\ \A m \in 1..Len(msgs) : msgs[m].createdAt.v <= msgs[j].createdAt.v
                    /\ \A m \in 1..(j - 1) : msgs[m].createdAt.v < msgs[j].createdAt.v
         IN  <<msgs[i]>> \o ordenar_desc(RemoveAt(msgs, i))

\* the sort raises TypeError when strings and numbers meet
Ordenavel(msgs) == \A i, j \in 1..Len(msgs) : msgs[i].createdAt.k = msgs[j].createdAt.k

\* try: sorted(...) except: pass
ordenar_mensagens(msgs) == IF Ordenavel(msgs) THEN ordenar_desc(msgs) ELSE msgs

RECURSIVE primeiro_cpf(_)
\* for msg in mensagens: the first body that yields a CPF
primeiro_cpf(msgs) ==
    IF msgs = <<>> THEN <<>>
    ELSE LET cpf == IF Head(msgs).body # <<>> THEN extrair_cpf(Head(msgs).body) ELSE <<>>
         IN  IF cpf # <<>> THEN cpf ELSE primeiro_cpf(Tail(msgs))

\* the history scan of webhook_datacrazy, given what the fetch returned
cpf_do_historico(mensagens) ==
    IF ~mensagens.some \/ mensagens.list = <<>> THEN <<>>
    ELSE LET ord == ordenar_mensagens(mensagens.list)
         IN  primeiro_cpf(SubSeq(ord, 1, IF Len(ord) < SCAN_LIMIT THEN Len(ord) ELSE SCAN_LIMIT))

\* ================================================================ webhook
\* request.headers.get('X-CRM-API-Key') or data.get('crm_api_key', '')
chave_do_pedido(r) ==
    IF r.header # Absent /\ r.header # "" THEN r.header ELSE GetOr(r.crm_api_key, "")

LogArgs(account_id, tipo, cpf, status, detalhes, lead_phone, lead_name) ==
    [account_id |-> account_id, tipo |-> tipo, cpf |-> cpf, status |-> status,
     detalhes |-> detalhes, lead_phone |-> lead_phone, lead_name |-> lead_name]

NoLog == LogArgs(<<>>, "", <<>>, "", <<>>, "", "")

\* what a request hands back: the HTTP answer, and (for the webhook) what it
\* did on the way: stage is the last step it entered (ResolveAccount,
\* ObtainText, ExtractIdentifier, Validate, Format, Send), events the order of
\* its collaborator calls and steps, lookup_some and envio what consultar_cpf
\* and enviar_mensagem_conversa returned, logged the entries it inserted;
\* accounts is the list GET /api/accounts returns, account the one-item list
\* with the object GET /api/accounts/<account_id> returns
Resposta(op, code, success) ==
    [op |-> op, code |-> code, success |-> success, n |-> 0,
     api_key |-> "", resolved |-> FALSE, account_id |-> <<>>, stage |-> "",
     cpf |-> <<>>, dados |-> SemDados, mensagem_formatada |-> Mensagem("", <<>>),
     mensagem_enviada |-> FALSE, error |-> "",
     lookup_some |-> FALSE, envio |-> None, msg_erro |-> "",
     events |-> <<>>, logged |-> <<>>,
     accounts |-> <<>>, account |-> <<>>]

NoResp == Resposta("none", 0, FALSE)

\* bool(resultado_envio)
Truthy(resultado_envio) == resultado_envio # None /\ resultado_envio # "empty"

\* a final status that files a failed send under errors
status_final_erro(resultado_envio) == IF Truthy(resultado_envio) THEN "Sucesso" ELSE "Erro"

\* the status of the final log entry: 'if resultado_envio:'
status_final(resultado_envio) == IF Truthy(resultado_envio) THEN "Sucesso" ELSE "Parcial"

\* a send issued ahead of the lookup and the formatting
chamar_envio_antes(eventos, api_key) ==
    (IF api_key # "" THEN <<"send">> ELSE <<>>) \o eventos

\* the call of enviar_mensagem_conversa, after formatar_mensagem returned:
\* it reaches the CRM unless api_key is empty
chamar_envio(eventos, api_key) ==
    eventos \o (IF api_key # "" THEN <<"send">> ELSE <<>>)

\* webhook_datacrazy after the account lookup.  r: the request; fetch,
\* lookup, envio: what the collaborators answer if called; token: the CPF
\* API token in force.  Result: [resp, log] - the answer and the add_log
\* call made before it (NoLog when none is made).
webhook_conta(res, r, fetch, token, lookup, envio) ==
    LET api_key == chave_do_pedido(r)
        base == [Resposta("webhook", 0, FALSE) EXCEPT
                   !.api_key = api_key, !.resolved = res.found, !.account_id = res.id,
                   !.msg_erro = res.acc.msg_erro]
        lead_phone == GetOr(r.leadPhone, "")
        lead_name == GetOr(r.leadName, "")
    IN
    IF ~res.found THEN
      [resp |-> [base EXCEPT !.code = 401, !.stage = "ResolveAccount", !.error = "Conta nao encontrada para esta chave de API"],
       log |-> NoLog]
    ELSE IF r.conversationId = Absent \/ r.conversationId = "" THEN
      [resp |-> [base EXCEPT !.code = 400, !.stage = "ObtainText",
                             !.error = "conversationId e obrigatorio"],
       log |-> LogArgs(res.id, "WEBHOOK", <<>>, "Erro", <<"conversationId nao fornecido">>,
                       lead_phone, lead_name)]
    ELSE
      LET direto == IF r.mensagem # <<>> THEN extrair_cpf(r.mensagem) ELSE <<>>
          buscou == direto = <<>>
          mensagens == buscar_mensagens_conversa(api_key, fetch)
          cpf == IF buscou THEN cpf_do_historico(mensagens) ELSE direto
          ev1 == IF buscou /\ api_key # "" THEN <<"fetch">> ELSE <<>>
      IN
      IF cpf = <<>> THEN
        [resp |-> [base EXCEPT !.code = 404, !.stage = "ExtractIdentifier",
                               !.error = "CPF nao encontrado nas mensagens",
                               !.events = ev1],
         log |-> LogArgs(res.id, "CONSULTA", <<>>, "Erro", <<"CPF nao encontrado">>,
                         lead_phone, lead_name)]
      ELSE IF ~validar_cpf_rapido(cpf) THEN
        [resp |-> [base EXCEPT !.code = 400, !.stage = "Validate",
                               !.error = "CPF invalido", !.cpf = cpf,
                               !.events = ev1],
         log |-> LogArgs(res.id, "CONSULTA", cpf, "Erro", <<"CPF invalido">>,
                         lead_phone, lead_name)]
      ELSE
        LET dados_cpf == consultar_cpf(token, lookup)
            ev2 == ev1 \o (IF token # "" THEN <<"lookup">> ELSE <<>>) \o <<"format">>
            fm == formatar_mensagem(dados_cpf, cpf, res.acc)
        IN
        IF fm.raised # "none" THEN
          [resp |-> [base EXCEPT !.code = 500, !.stage = "Format",
                                 !.error = fm.raised, !.cpf = cpf,
                                 !.lookup_some = dados_cpf.some, !.events = ev2],
           log |-> NoLog]
        ELSE
          LET resultado_envio == enviar_mensagem_conversa(api_key, envio)
              ev3 == chamar_envio(ev2, api_key)
              nome_titular == IF DadosFalsy(dados_cpf) THEN ""
                              ELSE GetOr(dados_cpf.NOME, GetOr(dados_cpf.nome, ""))
          IN
          [resp |-> [base EXCEPT !.code = 200, !.success = TRUE, !.stage = "Send",
                                 !.cpf = cpf,
                                 !.dados = dados_cpf,
                                 !.mensagem_formatada = fm.msg,
                                 !.mensagem_enviada = (resultado_envio # None),
                                 !.lookup_some = dados_cpf.some,
                                 !.envio = resultado_envio,
                                 !.events = ev3],
           log |-> LogArgs(res.id, "CONSULTA", cpf, status_final(resultado_envio),
                           IF Truthy(resultado_envio)
                             THEN <<"Titular", nome_titular>>
                             ELSE <<"Titular", nome_titular, "(msg nao enviada)">>,
                           lead_phone, lead_name)]

\* ================================================================== state
VARIABLES
    accountsFile,   \* accounts.json: the dict it holds (<<>> when it is missing,
                    \* empty or cut short: load_accounts then returns {})
    logsFile,       \* logs.json, likewise
    accounts_lock,  \* holder of accounts_lock, 0 when free
    logs_lock,      \* holder of logs_lock, 0 when free
    now,            \* datetime.now(), in seconds
    pc,             \* per thread: where its request stands
    ret,            \* per thread: where save_accounts returns to
    req,            \* per thread: the webhook request being served
    conta,          \* per thread: what get_account_by_api_key returned
    novo,           \* per thread: name and crm_api_key of the account to create
    accounts,       \* per thread: its local 'accounts' dict
    logs_data,      \* per thread: its local 'logs_data' dict
    alog,           \* per thread: the arguments of its add_log call
    pending,        \* per thread: the answer it will give
    resp,           \* per thread: the answer to its last finished request
    mut,            \* per thread: the store mutation its request is making
    ops,            \* requests started so far
    seq,            \* add_log calls that inserted so far
    appended,       \* serial numbers of the entries whose add_log returned
    built,          \* [n, id] of every id a create generated
    feitos,         \* the store mutations of the requests that returned
    lim,            \* the bounds of the behaviour: [ops, time]
    texto,          \* a text handed to extrair_cpf
    extraido        \* what extrair_cpf returned for it: [done, cpf]

vars == <<accountsFile, logsFile, accounts_lock, logs_lock, now, pc, ret, req, conta,
          novo, accounts, logs_data, alog, pending, resp, mut, ops, seq, appended,
          built, feitos, lim, texto, extraido>>

\* the worker threads
Threads == DOMAIN pc


shared == <<accountsFile, logsFile, accounts_lock, logs_lock>>
ghosts == <<appended, built, feitos, lim, texto, extraido>>

\* ----------------------------------------------------------------- inputs
NoTemplate == AbsentTemplate

\* the JSON body of a PUT
PutData(name, crm_api_key, message_template, formato_cpf, msg_erro) ==
    [name |-> name, crm_api_key |-> crm_api_key, message_template |-> message_template,
     formato_cpf |-> formato_cpf, msg_erro |-> msg_erro]

NoPut == PutData(Absent, Absent, NoTemplate, Absent, Absent)

\* the JSON body of a webhook request, and its X-CRM-API-Key header
Pedido(header, crm_api_key, conversationId, leadPhone, leadName, mensagem) ==
    [header |-> header, crm_api_key |-> crm_api_key, conversationId |-> conversationId,
     leadPhone |-> leadPhone, leadName |-> leadName, mensagem |-> mensagem]

NoReq == Pedido(Absent, Absent, Absent, Absent, Absent, <<>>)

Mutacao(n, op, id, name, crm_api_key, put, ts) ==
    [n |-> n, op |-> op, id |-> id, name |-> name, crm_api_key |-> crm_api_key,
     put |-> put, ts |-> ts]

NoMut == Mutacao(0, "none", <<>>, "", "", NoPut, 0)

NoNovo == [name |-> "", crm_api_key |-> ""]

\* ------------------------------------------------------------------- Init
\* no text has been handed to the extractor
NaoExtraido == [done |-> FALSE, cpf |-> <<>>]

\* the stores, the threads and the counters at start-up
InitStores(accs, logs, nthreads, maxops, maxtime) ==
    /\ lim = [ops |-> maxops, time |-> maxtime]
    /\ accountsFile = accs
    /\ logsFile = logs
    /\ accounts_lock = 0
    /\ logs_lock = 0
    /\ now = 0
    /\ pc = [t \in 1..nthreads |-> "idle"]
    /\ ret = [t \in 1..nthreads |-> "finish"]
    /\ req = [t \in 1..nthreads |-> NoReq]
    /\ conta = [t \in 1..nthreads |-> NoAccount]
    /\ novo = [t \in 1..nthreads |-> NoNovo]
    /\ accounts = [t \in 1..nthreads |-> <<>>]
    /\ logs_data = [t \in 1..nthreads |-> <<>>]
    /\ alog = [t \in 1..nthreads |-> NoLog]
    /\ pending = [t \in 1..nthreads |-> NoResp]
    /\ resp = [t \in 1..nthreads |-> NoResp]
    /\ mut = [t \in 1..nthreads |-> NoMut]
    /\ ops = 0
    /\ seq = 0
    /\ appended = {}
    /\ built = {}
    /\ feitos = {}

InitWith(accs, logs, nthreads, maxops, maxtime) ==
    /\ InitStores(accs, logs, nthreads, maxops, maxtime)
    /\ texto = <<>>
    /\ extraido = NaoExtraido

\* ---------------------------------------------------------------- helpers
\* the request returns: its locals die, its answer and its mutation are kept
Finish(t, answer) ==
    /\ pc' = [pc EXCEPT ![t] = "idle"]
    /\ ret' = [ret EXCEPT ![t] = "finish"]
    /\ req' = [req EXCEPT ![t] = NoReq]
    /\ conta' = [conta EXCEPT ![t] = NoAccount]
    /\ novo' = [novo EXCEPT ![t] = NoNovo]
    /\ accounts' = [accounts EXCEPT ![t] = <<>>]
    /\ logs_data' = [logs_data EXCEPT ![t] = <<>>]
    /\ alog' = [alog EXCEPT ![t] = NoLog]
    /\ pending' = [pending EXCEPT ![t] = NoResp]
    /\ resp' = [resp EXCEPT ![t] = answer]
    /\ mut' = [mut EXCEPT ![t] = NoMut]

\* a request arrives at an idle thread; requests are numbered as they arrive
Start(t) ==
    /\ pc[t] = "idle"
    /\ ops < lim.ops
    /\ ops' = ops + 1

Ok(op, n) == [Resposta(op, 200, TRUE) EXCEPT !.n = n]
NotFound(op, n) == [Resposta(op, 404, FALSE) EXCEPT !.n = n, !.error = "Conta nao encontrada"]

\* ================================================================ actions
\* the clock advances
Tick ==
    /\ now < lim.time
    /\ now' = now + 1
    /\ UNCHANGED <<shared, pc, ret, req, conta, novo, accounts, logs_data, alog,
                   pending, resp, mut, ops, seq, ghosts>>

\* -------------------------------------------------- POST /api/accounts
\* data.get('name', 'Nova Conta'), data.get('crm_api_key', ''), load_accounts()
CreateLoad(t, data) ==
    /\ Start(t)
    /\ novo' = [novo EXCEPT ![t] = [name |-> GetOr(data.name, "Nova Conta"),
                                    crm_api_key |-> GetOr(data.crm_api_key, "")]]
    /\ accounts' = [accounts EXCEPT ![t] = accountsFile]
    /\ pending' = [pending EXCEPT ![t] = Ok("create", ops')]
    /\ pc' = [pc EXCEPT ![t] = "c_build"]
    /\ UNCHANGED <<shared, now, ret, req, conta, logs_data, alog, resp, mut, seq, ghosts>>

\* acc_id = ...; accounts[acc_id] = {...}; then save_accounts is entered
CreateBuild(t) ==
    /\ pc[t] = "c_build"
    /\ LET acc_id == gerar_acc_id(now, accounts[t])
       IN  /\ accounts' = [accounts EXCEPT ![t] =
                  DictSet(@, acc_id, NovaConta(novo[t].name, novo[t].crm_api_key, now))]
           /\ mut' = [mut EXCEPT ![t] =
                  Mutacao(pending[t].n, "create", acc_id, novo[t].name,
                          novo[t].crm_api_key, NoPut, now)]
           /\ pending' = [pending EXCEPT ![t].account_id = acc_id]
           /\ built' = built \cup {[n |-> pending[t].n, id |-> acc_id]}
    /\ pc' = [pc EXCEPT ![t] = "acc_open"]
    /\ ret' = [ret EXCEPT ![t] = "finish"]
    /\ UNCHANGED <<shared, now, req, conta, novo, logs_data, alog, resp, ops, seq,
                   appended, feitos, lim, texto, extraido>>

\* ------------------------------------------- PUT /api/accounts/<account_id>
PutLoad(t, account_id, data) ==
    /\ Start(t)
    /\ IF ~DictHas(accountsFile, account_id)
         THEN /\ Finish(t, NotFound("put", ops'))
              /\ UNCHANGED <<shared, now, seq, ghosts>>
         ELSE /\ accounts' = [accounts EXCEPT ![t] =
                     DictSet(accountsFile, account_id,
                             aplicar_put(DictGet(accountsFile, account_id), data))]
              /\ mut' = [mut EXCEPT ![t] = Mutacao(ops', "put", account_id, "", "", data, now)]
              /\ alog' = [alog EXCEPT ![t] =
                     LogArgs(account_id, "CONFIG", <<"-">>, "Sucesso",
                             <<"Configuracoes atualizadas">>, "", "")]
              /\ pending' = [pending EXCEPT ![t] = Ok("put", ops')]
              /\ pc' = [pc EXCEPT ![t] = "acc_open"]
              /\ ret' = [ret EXCEPT ![t] = "add_log"]
              /\ UNCHANGED <<shared, now, req, conta, novo, logs_data, resp, seq, ghosts>>

\* ---------------------------------------- DELETE /api/accounts/<account_id>
DeleteLoad(t, account_id) ==
    /\ Start(t)
    /\ IF ~DictHas(accountsFile, account_id)
         THEN /\ Finish(t, NotFound("delete", ops'))
              /\ UNCHANGED <<shared, now, seq, ghosts>>
         ELSE /\ accounts' = [accounts EXCEPT ![t] = DictDel(accountsFile, account_id)]
              /\ mut' = [mut EXCEPT ![t] = Mutacao(ops', "delete", account_id, "", "", NoPut, now)]
              /\ pending' = [pending EXCEPT ![t] = Ok("delete", ops')]
              /\ pc' = [pc EXCEPT ![t] = "acc_open"]
              /\ ret' = [ret EXCEPT ![t] = "del_logs"]
              /\ UNCHANGED <<shared, now, req, conta, novo, logs_data, alog, resp, seq, ghosts>>

\* logs_data = load_logs(); if account_id in logs_data: del ...; save_logs(...)
DeleteLogs(t) ==
    /\ pc[t] = "del_logs"
    /\ IF DictHas(logsFile, mut[t].id)
         THEN /\ logs_data' = [logs_data EXCEPT ![t] = DictDel(logsFile, mut[t].id)]
              /\ pc' = [pc EXCEPT ![t] = "logs_open"]
              /\ UNCHANGED <<shared, now, ret, req, conta, novo, accounts, alog, pending,
                             resp, mut, ops, seq, ghosts>>
         ELSE /\ Finish(t, pending[t])
              /\ feitos' = feitos \cup {mut[t]}
              /\ UNCHANGED <<shared, now, ops, seq, appended, built, lim, texto, extraido>>

\* ----------------------------------- DELETE /api/accounts/<account_id>/logs
ClearLoad(t, account_id) ==
    /\ Start(t)
    /\ IF DictHas(logsFile, account_id)
         THEN /\ logs_data' = [logs_data EXCEPT ![t] = DictSet(logsFile, account_id, <<>>)]
              /\ mut' = [mut EXCEPT ![t] = Mutacao(ops', "clear", account_id, "", "", NoPut, now)]
              /\ pending' = [pending EXCEPT ![t] = Ok("clear", ops')]
              /\ pc' = [pc EXCEPT ![t] = "logs_open"]
              /\ UNCHANGED <<shared, now, ret, req, conta, novo, accounts, alog, resp,
                             seq, ghosts>>
         ELSE /\ Finish(t, Ok("clear", ops'))
              /\ UNCHANGED <<shared, now, seq, ghosts>>

\* ------------------------------------------------------ GET /api/accounts
\* '***' + key[-10:] if len(key) > 10 else ''
crm_api_key_preview(key) ==
    IF Len(key) > PREVIEW_LEN
      THEN "***" \o SubSeq(key, Len(key) - PREVIEW_LEN + 1, Len(key))
      ELSE ""

\* one item of the list: id, name, crm_api_key_preview
item_da_lista(e) ==
    [id |-> e.id, name |-> e.rec.name,
     crm_api_key_preview |-> crm_api_key_preview(e.rec.crm_api_key)]

ListAccounts(t) ==
    /\ Start(t)
    /\ Finish(t, [Ok("list", ops') EXCEPT
                    !.accounts = [i \in 1..Len(accountsFile) |->
                                     item_da_lista(accountsFile[i])]])
    /\ UNCHANGED <<shared, now, seq, ghosts>>

\* -------------------------------------------- GET /api/accounts/<account_id>
\* accounts[account_id].copy() with 'id' added and, for a key longer than
\* PREVIEW_LEN, 'crm_api_key_preview' (Absent otherwise)
copia_da_conta(account_id, acc) ==
    [id |-> account_id, name |-> acc.name, crm_api_key |-> acc.crm_api_key,
     message_template |-> acc.message_template, formato_cpf |-> acc.formato_cpf,
     msg_erro |-> acc.msg_erro, created_at |-> acc.created_at,
     crm_api_key_preview |->
        IF Len(acc.crm_api_key) > PREVIEW_LEN
          THEN "***" \o SubSeq(acc.crm_api_key, Len(acc.crm_api_key) - PREVIEW_LEN + 1,
                                Len(acc.crm_api_key))
          ELSE Absent]

GetAccount(t, account_id) ==
    /\ Start(t)
    /\ IF ~DictHas(accountsFile, account_id)
         THEN Finish(t, NotFound("get", ops'))
         ELSE Finish(t, [Ok("get", ops') EXCEPT
                           !.account_id = account_id,
                           !.account = <<copia_da_conta(account_id,
                                                        DictGet(accountsFile, account_id))>>])
    /\ UNCHANGED <<shared, now, seq, ghosts>>

\* ------------------------------------------------------------ save_accounts
\* with accounts_lock: open(..., 'w') empties the file
SaveAccountsOpen(t) ==
    /\ pc[t] = "acc_open"
    /\ accounts_lock = 0
    /\ accounts_lock' = t
    /\ accountsFile' = <<>>
    /\ pc' = [pc EXCEPT ![t] = "acc_dump"]
    /\ UNCHANGED <<logsFile, logs_lock, now, ret, req, conta, novo, accounts, logs_data,
                   alog, pending, resp, mut, ops, seq, ghosts>>

\* json.dump(accounts, f); the lock is released; the caller goes on
SaveAccountsDump(t) ==
    /\ pc[t] = "acc_dump"
    /\ accountsFile' = accounts[t]
    /\ accounts_lock' = 0
    /\ IF ret[t] = "finish"
         THEN /\ Finish(t, pending[t])
              /\ feitos' = feitos \cup {mut[t]}
              /\ UNCHANGED <<logsFile, logs_lock, now, ops, seq, appended, built, lim, texto, extraido>>
         ELSE /\ pc' = [pc EXCEPT ![t] = IF ret[t] = "add_log" THEN "al_load" ELSE "del_logs"]
              /\ UNCHANGED <<logsFile, logs_lock, now, ret, req, conta, novo, accounts,
                             logs_data, alog, pending, resp, mut, ops, seq, ghosts>>

\* ------------------------------------------------------------------ add_log
\* logs_data = load_logs()
AddLogLoad(t) ==
    /\ pc[t] = "al_load"
    /\ logs_data' = [logs_data EXCEPT ![t] = logsFile]
    /\ pc' = [pc EXCEPT ![t] = "al_insert"]
    /\ UNCHANGED <<shared, now, ret, req, conta, novo, accounts, alog, pending, resp,
                   mut, ops, seq, ghosts>>

\* acc = get_account(account_id); the entry is inserted at the head; trim
AddLogInsert(t) ==
    /\ pc[t] = "al_insert"
    /\ seq' = seq + 1
    /\ LET entrada == NovaEntrada(seq', now, alog[t],
                                  nome_da_conta(accountsFile, alog[t].account_id))
       IN  /\ logs_data' = [logs_data EXCEPT ![t] = inserir_log(@, alog[t].account_id, entrada)]
           /\ pending' = [pending EXCEPT ![t].logged = Append(@, entrada)]
    /\ pc' = [pc EXCEPT ![t] = "logs_open"]
    /\ UNCHANGED <<shared, now, ret, req, conta, novo, accounts, alog, resp, mut, ops,
                   ghosts>>

\* ---------------------------------------------------------------- save_logs
SaveLogsOpen(t) ==
    /\ pc[t] = "logs_open"
    /\ logs_lock = 0
    /\ logs_lock' = t
    /\ logsFile' = <<>>
    /\ pc' = [pc EXCEPT ![t] = "logs_dump"]
    /\ UNCHANGED <<accountsFile, accounts_lock, now, ret, req, conta, novo, accounts,
                   logs_data, alog, pending, resp, mut, ops, seq, ghosts>>

\* json.dump(logs_data, f); the lock is released; the handler answers
SaveLogsDump(t) ==
    /\ pc[t] = "logs_dump"
    /\ logsFile' = logs_data[t]
    /\ logs_lock' = 0
    /\ Finish(t, [pending[t] EXCEPT !.events =
                     IF alog[t] # NoLog THEN Append(@, "log") ELSE @])
    /\ appended' = IF alog[t] # NoLog
                     THEN appended \cup {pending[t].logged[Len(pending[t].logged)].seq}
                     ELSE appended
    /\ feitos' = IF mut[t] # NoMut THEN feitos \cup {mut[t]} ELSE feitos
    /\ UNCHANGED <<accountsFile, accounts_lock, now, ops, seq, built, lim, texto, extraido>>

\* ------------------------------------------------ POST /api/webhook/datacrazy
\* the credential is read and get_account_by_api_key loads the accounts
WebhookResolve(t, r) ==
    /\ Start(t)
    /\ LET res == get_account_by_api_key(accountsFile, chave_do_pedido(r))
       IN  IF ~res.found
             THEN /\ Finish(t, [webhook_conta(res, r, [ok |-> FALSE, messages |-> <<>>], "",
                                              [kind |-> "timeout", status |-> 0,
                                               success |-> FALSE, data |-> SemDados],
                                              "fail").resp EXCEPT !.n = ops'])
                  /\ UNCHANGED <<shared, now, seq, ghosts>>
             ELSE /\ req' = [req EXCEPT ![t] = r]
                  /\ conta' = [conta EXCEPT ![t] = res]
                  /\ pending' = [pending EXCEPT ![t] = [NoResp EXCEPT !.n = ops']]
                  /\ pc' = [pc EXCEPT ![t] = "wh_run"]
                  /\ UNCHANGED <<shared, now, ret, novo, accounts, logs_data, alog, resp,
                                 mut, seq, ghosts>>

\* everything from conversationId to the add_log call (or to the 500 answer)
WebhookRun(t, fetch, token, lookup, envio) ==
    /\ pc[t] = "wh_run"
    /\ LET out == webhook_conta(conta[t], req[t], fetch, token, lookup, envio)
           answer == [out.resp EXCEPT !.n = pending[t].n]
       IN  IF out.log = NoLog
             THEN /\ Finish(t, answer)
                  /\ UNCHANGED <<shared, now, ops, seq, ghosts>>
             ELSE /\ alog' = [alog EXCEPT ![t] = out.log]
                  /\ pending' = [pending EXCEPT ![t] = answer]
                  /\ pc' = [pc EXCEPT ![t] = "al_load"]
                  /\ UNCHANGED <<shared, now, ret, req, conta, novo, accounts, logs_data,
                                 resp, mut, ops, seq, ghosts>>

\* ================================================================= inputs
TxtCpf == <<"c", "p", "f", " ", "1", "1", "1", ".", "4", "4", "4", ".", "7", "7", "7", "-", "3", "5">>
TxtCnpj == <<"1", "2", ".", "3", "4", "5", ".", "6", "7", "8", "/", "0", "0", "0", "1", "-", "9", "5">>
TxtOi == <<"o", "i">>
\* eleven digits whose check digits are wrong
TxtCpfInvalido == <<"1", "1", "1", ".", "4", "4", "4", ".", "7", "7", "7", "-", "3", "6">>

FetchFail == [ok |-> FALSE, messages |-> <<>>]
FetchOk(messages) == [ok |-> TRUE, messages |-> messages]

Maria == [SemDados EXCEPT !.some = TRUE, !.NOME = "Maria", !.NASC = "01/01/1990"]

LookupTimeout == [kind |-> "timeout", status |-> 0, success |-> FALSE, data |-> SemDados]
LookupHttp(status, success, data) ==
    [kind |-> "http", status |-> status, success |-> success, data |-> data]

\* the ids a request path may name: those the stores hold, and one more
Alvos == DictKeys(accountsFile) \cup DictKeys(logsFile) \cup {<<0, 0>>}

\* ============================================ the stores under concurrency
\* Both files start missing: load_accounts and load_logs return {}.
Init == InitWith(<<>>, <<>>, NumThreads, MaxOps, MaxTime)

CreateInputs == {[name |-> "A", crm_api_key |-> "k1"]}
PutInputs == {PutData("B", Absent, NoTemplate, Absent, Absent)}
PedidosK1 == {Pedido("k1", Absent, "c1", Absent, Absent, TxtCpf)}

Next ==
    \/ Tick
    \/ \E t \in 1..NumThreads :
         \/ \E data \in CreateInputs : CreateLoad(t, data)
         \/ CreateBuild(t)
         \/ \E id \in Alvos, data \in PutInputs : PutLoad(t, id, data)
         \/ \E id \in Alvos : DeleteLoad(t, id)
         \/ DeleteLogs(t)
         \/ \E id \in Alvos : ClearLoad(t, id)
         \/ SaveAccountsOpen(t)
         \/ SaveAccountsDump(t)
         \/ AddLogLoad(t)
         \/ AddLogInsert(t)
         \/ SaveLogsOpen(t)
         \/ SaveLogsDump(t)
         \/ \E r \in PedidosK1 : WebhookResolve(t, r)
         \/ \E envio \in {"fail", "obj"} :
              WebhookRun(t, FetchFail, "tok", LookupHttp(200, TRUE, Maria), envio)

Spec == Init /\ [][Next]_vars

\* ================================================================= claims
\* no request is being served
Quiet == \A t \in Threads : pc[t] = "idle"

\* the serial numbers of the entries logs.json holds
EntradasNoArquivo ==
    UNION {{logsFile[i].rec[j].seq : j \in 1..Len(logsFile[i].rec)} : i \in 1..Len(logsFile)}

\* C1: once every add_log call has returned (and no request deleted or
\* cleared a log), logs.json holds every entry that was appended.
C1_NoLostLogEntry ==
    (Quiet /\ ~\E m \in feitos : m.op \in {"delete", "clear"})
        => appended \subseteq EntradasNoArquivo

\* one store mutation applied to an accounts dict, as its handler does alone
Aplicar(accs, m) ==
    CASE m.op = "create" ->
           DictSet(accs, gerar_acc_id(m.ts, accs), NovaConta(m.name, m.crm_api_key, m.ts))
      [] m.op = "put" ->
           IF DictHas(accs, m.id) THEN DictSet(accs, m.id, aplicar_put(DictGet(accs, m.id), m.put))
           ELSE accs
      [] m.op = "delete" -> DictDel(accs, m.id)
      [] OTHER -> accs

RECURSIVE SerialResults(_, _)
\* the dicts the mutations ms leave when run one after another, in any order
SerialResults(ms, accs) ==
    IF ms = {} THEN {accs}
    ELSE UNION {SerialResults(ms \ {m}, Aplicar(accs, m)) : m \in ms}

Itens(d) == {d[i] : i \in 1..Len(d)}

\* C2: when all mutating requests have returned, accounts.json holds what
\* running them one at a time, in some order, would have left.
C2_AccountsSerializable ==
    Quiet => \E r \in SerialResults(feitos, <<>>) : Itens(r) = Itens(accountsFile)

\* C3: once DELETE of an account has returned success, logs.json holds no key
\* for its id (ids generated twice are left out: a second account then owns it).
C3_NoLogOutlivesAccount ==
    \A m \in feitos :
        (m.op = "delete" /\ Cardinality({b \in built : b.id = m.id}) <= 1)
            => ~DictHas(logsFile, m.id)

\* C10: no two accounts of accounts.json hold the same crm_api_key.
C10_CredentialUnique ==
    \A i, j \in 1..Len(accountsFile) :
        i # j => accountsFile[i].rec.crm_api_key # accountsFile[j].rec.crm_api_key

\* ======================================= the account store, one request at
\* a time.  accounts.json starts with the account a first create leaves.
ContaA == [id |-> <<0, 0>>, rec |-> NovaConta("A", "k1", 0)]

InitSeq == InitWith(<<ContaA>>, <<>>, 1, SeqOps, SeqTime)

NextSeq ==
    \/ Tick
    \/ \E data \in CreateInputs : CreateLoad(1, data)
    \/ CreateBuild(1)
    \/ \E id \in Alvos : DeleteLoad(1, id)
    \/ DeleteLogs(1)
    \/ \E id \in Alvos, data \in PutInputs : PutLoad(1, id, data)
    \/ AddLogLoad(1)
    \/ AddLogInsert(1)
    \/ SaveAccountsOpen(1)
    \/ SaveAccountsDump(1)
    \/ SaveLogsOpen(1)
    \/ SaveLogsDump(1)

SpecSeq == InitSeq /\ [][NextSeq]_vars

\* C9: the id a create generates is the id of no account of the dict it
\* loaded: the create adds an item and replaces none.
C9_CreateIdFresh ==
    [][\A t \in Threads :
          (pc[t] = "c_build" /\ pc'[t] = "acc_open")
              => Len(accounts'[t]) = Len(accounts[t]) + 1]_vars

\* ================================================== the log near its cap
\* logs.json starts with one account's log at the cap or one entry short of
\* it, as that many webhook requests without a CPF leave it.
EntradaAntiga(k) ==
    [seq |-> 0 - k, data |-> 0, tipo |-> "CONSULTA", cpf |-> <<"-">>, status |-> "Erro",
     detalhes |-> <<"CPF nao encontrado">>, lead_phone |-> "-", lead_name |-> "-",
     account_name |-> "A"]

LogAntigo(n) == [k \in 1..n |-> EntradaAntiga(k)]

InitCap ==
    \E n \in {LOG_CAP - 1, LOG_CAP} :
        InitWith(<<ContaA>>, <<[id |-> <<0, 0>>, rec |-> LogAntigo(n)]>>,
                 CapThreads, CapOps, CapTime)

NextCap ==
    \/ Tick
    \/ \E t \in 1..CapThreads :
         \/ \E r \in PedidosK1 : WebhookResolve(t, r)
         \/ WebhookRun(t, FetchFail, "tok", LookupHttp(200, TRUE, Maria), "obj")
         \/ AddLogLoad(t)
         \/ AddLogInsert(t)
         \/ SaveLogsOpen(t)
         \/ SaveLogsDump(t)

SpecCap == InitCap /\ [][NextCap]_vars

\* newest first: every entry was inserted after, and is dated no earlier
\* than, the one that follows it
NewestFirst(lista) ==
    \A i \in 1..(Len(lista) - 1) :
        /\ lista[i].seq > lista[i + 1].seq
        /\ lista[i].data >= lista[i + 1].data

LogsBounded ==
    \A i \in 1..Len(logsFile) :
        /\ Len(logsFile[i].rec) <= LOG_CAP
        /\ NewestFirst(logsFile[i].rec)

\* what one add_log does to the list it loaded, and what it then writes
AppendStep(t) ==
    LET id == alog[t].account_id
        antes == IF DictHas(logs_data[t], id) THEN DictGet(logs_data[t], id) ELSE <<>>
        depois == DictGet(logs_data'[t], id)
        nova == pending'[t].logged[Len(pending'[t].logged)]
    IN  /\ DictHas(logs_data'[t], id)
        /\ depois[1] = nova
        /\ nova.seq = seq'
        /\ IF Len(antes) >= LOG_CAP
             THEN /\ Len(depois) = LOG_CAP
                  /\ SubSeq(depois, 2, LOG_CAP) = SubSeq(antes, 1, LOG_CAP - 1)
             ELSE Tail(depois) = antes

\* C4: every log of logs.json holds at most LOG_CAP entries, newest first;
\* an append puts the new entry at the head and, when the loaded log is
\* full, drops exactly its last (oldest) entry; that list is what is written.
C4_LogCappedNewestFirst ==
    /\ []LogsBounded
    /\ [][\A t \in Threads :
            /\ (pc[t] = "al_insert" /\ pc'[t] = "logs_open") => AppendStep(t)
            /\ (pc[t] = "logs_dump" /\ pc'[t] = "idle") => logsFile' = logs_data[t]]_vars

\* a full log took one more entry and lost its oldest
C4_Witness ==
    \E i \in 1..Len(logsFile) :
        /\ Len(logsFile[i].rec) = LOG_CAP
        /\ logsFile[i].rec[1].seq = 1
        /\ logsFile[i].rec[2] = EntradaAntiga(1)
        /\ logsFile[i].rec[LOG_CAP] = EntradaAntiga(LOG_CAP - 1)

\* ============================================================ the webhook
\* accounts.json holds account A as created and account B as a create and a
\* PUT of its template, format and error text leave it; B's log was cleared.
ContaB ==
    [id |-> <<0, 1>>,
     rec |-> [NovaConta("B", "k2", 0) EXCEPT
                !.message_template = << <<Lit("CPF "), Pos>> >>,
                !.formato_cpf = "completo",
                !.msg_erro = "CPF nao localizado"]]

InitHook == InitWith(<<ContaA, ContaB>>, <<[id |-> <<0, 1>>, rec |-> <<>>]>>,
                     1, HookOps, 0)

HookPedidos ==
    {Pedido("k1", Absent, "c1", "5511", "Ana", TxtCpf),
     Pedido("k1", Absent, Absent, Absent, Absent, TxtCpf),
     Pedido(Absent, "k2", "c1", Absent, Absent, TxtCpf),
     Pedido("k9", Absent, "c1", Absent, Absent, TxtCpf),
     Pedido("k1", Absent, "c1", Absent, Absent, TxtOi),
     Pedido("k1", Absent, "c1", Absent, Absent, TxtCpfInvalido)}

\* the conversation: a CNPJ in the latest message, a CPF in the one before
Historico == <<Msg(TRUE, Criado("s", 1), TxtCpf), Msg(TRUE, Criado("s", 2), TxtCnpj)>>

HookFetch == {FetchFail, FetchOk(Historico)}
HookTokens == {"tok"}
HookLookup == {LookupTimeout, LookupHttp(200, TRUE, Maria)}
HookEnvio == {"fail", "empty", "obj"}

NextHook ==
    \/ \E r \in HookPedidos : WebhookResolve(1, r)
    \/ \E fetch \in HookFetch, token \in HookTokens, lookup \in HookLookup,
          envio \in HookEnvio : WebhookRun(1, fetch, token, lookup, envio)
    \/ AddLogLoad(1)
    \/ AddLogInsert(1)
    \/ SaveLogsOpen(1)
    \/ SaveLogsDump(1)

SpecHook == InitHook /\ [][NextHook]_vars

\* C5: a webhook request whose account was resolved inserts exactly one log
\* entry before it answers, and one with status 'Erro' when the answer is an
\* error (400, 404, 500).
C5_OneLogPerResolvedRequest ==
    \A t \in Threads :
        (resp[t].op = "webhook" /\ resp[t].resolved)
            => /\ Len(resp[t].logged) = 1
               /\ resp[t].code >= 400 => resp[t].logged[1].status = "Erro"

\* a webhook request arrives at thread t in this step, with this credential
Chegou(t) ==
    /\ pc[t] = "idle"
    /\ ops' = ops + 1
    /\ \/ pc'[t] = "wh_run"
       \/ resp'[t].op = "webhook" /\ resp'[t].n = ops'

ChaveChegada(t) == IF pc'[t] = "wh_run" THEN chave_do_pedido(req'[t]) ELSE resp'[t].api_key

\* C6: a webhook request whose credential is the crm_api_key of no account is
\* answered 401 at once: no log entry, no collaborator call, and neither
\* accounts.json nor logs.json changes.
C6_UnknownCredential401 ==
    [][\A t \in Threads :
          (/\ Chegou(t)
           /\ \A i \in 1..Len(accountsFile) :
                 accountsFile[i].rec.crm_api_key # ChaveChegada(t))
              => /\ pc'[t] = "idle"
                 /\ resp'[t].code = 401
                 /\ ~resp'[t].success
                 /\ resp'[t].events = <<>>
                 /\ resp'[t].logged = <<>>
                 /\ accountsFile' = accountsFile
                 /\ logsFile' = logsFile]_vars

C6_Witness ==
    \E t \in Threads :
        /\ resp[t].op = "webhook"
        /\ resp[t].code = 401
        /\ resp[t].api_key = "k9"
        /\ Len(accountsFile) = 2

\* C7: when the CPF was found and validated and enviar_mensagem_conversa
\* returns None, the answer is 200 success:true and the request's one log
\* entry has status 'Parcial'.
C7_SendFailureIsPartial ==
    \A t \in Threads :
        (resp[t].op = "webhook" /\ resp[t].stage = "Send" /\ resp[t].envio = None)
            => /\ resp[t].code = 200
               /\ resp[t].success
               /\ validar_cpf_rapido(resp[t].cpf)
               /\ Len(resp[t].logged) = 1
               /\ resp[t].logged[1].status = "Parcial"

C7_Witness ==
    \E t \in Threads :
        /\ resp[t].op = "webhook"
        /\ resp[t].stage = "Send"
        /\ resp[t].envio = None
        /\ resp[t].api_key = "k1"
        /\ resp[t].dados = Maria
        /\ resp[t].events = <<"lookup", "format", "send", "log">>

\* C8: when consultar_cpf returns None for a found, valid CPF, the answer is
\* success:true with dados null and the account's msg_erro as
\* mensagem_formatada, and the log entry says 'Sucesso' when the send got an
\* answer and 'Parcial' when it did not.
C8_NoRecordStillReplies ==
    \A t \in Threads :
        (resp[t].op = "webhook" /\ resp[t].stage = "Send" /\ ~resp[t].lookup_some)
            => /\ resp[t].code = 200
               /\ resp[t].success
               /\ ~resp[t].dados.some
               /\ resp[t].mensagem_formatada =
                      Mensagem(DictGet(accountsFile, resp[t].account_id).msg_erro, <<>>)
               /\ Len(resp[t].logged) = 1
               /\ resp[t].logged[1].status =
                      (IF resp[t].envio # None THEN "Sucesso" ELSE "Parcial")

\* ==================================================== account management
\* One administrator request at a time.  accounts.json holds account A and an
\* account whose key is longer than the preview.
ContaLonga == [id |-> <<0, 1>>, rec |-> NovaConta("L", "sk-live-0123456789", 0)]

InitAdmin == InitWith(<<ContaA, ContaLonga>>, <<>>, 1, AdminOps, 0)

\* ids a request path names: the two stored accounts and an unknown one
AdminIds == {<<0, 0>>, <<0, 1>>, <<0, 9>>}

\* an empty string as message_template: one empty line
TemplateVazio == << <<>> >>

AdminPuts ==
    {PutData("B", Absent, NoTemplate, Absent, Absent),
     PutData(Absent, "", NoTemplate, Absent, Absent),
     PutData("", Absent, TemplateVazio, "", ""),
     PutData(Absent, "k3", NoTemplate, "parcial", Absent)}

NextAdmin ==
    \/ \E id \in AdminIds, data \in AdminPuts : PutLoad(1, id, data)
    \/ SaveAccountsOpen(1)
    \/ SaveAccountsDump(1)
    \/ AddLogLoad(1)
    \/ AddLogInsert(1)
    \/ SaveLogsOpen(1)
    \/ SaveLogsDump(1)
    \/ ListAccounts(1)
    \/ \E id \in AdminIds : GetAccount(1, id)

SpecAdmin == InitAdmin /\ [][NextAdmin]_vars

\* thread t takes a PUT for a stored account in this step
PutAceito(t) == pc[t] = "idle" /\ pc'[t] = "acc_open" /\ mut'[t].op = "put"

\* the fields of an account record a PUT body can name
CamposPut == {"name", "crm_api_key", "message_template", "formato_cpf", "msg_erro"}

\* 'campo' in data
Fornecido(data, campo) ==
    IF campo = "message_template" THEN data[campo] # AbsentTemplate
    ELSE data[campo] # Absent

\* C11: a PUT changes no field its body does not name (created_at included)
\* and no other account: the dict it builds differs from accounts.json only in
\* named fields of the addressed account, and that dict is what it writes.
C11_PutFrame ==
    [][\A t \in Threads :
          /\ PutAceito(t) =>
                LET id == mut'[t].id
                    data == mut'[t].put
                    antes == accountsFile
                    depois == accounts'[t]
                IN  /\ Len(depois) = Len(antes)
                    /\ \A i \in 1..Len(antes) :
                          /\ depois[i].id = antes[i].id
                          /\ antes[i].id # id => depois[i].rec = antes[i].rec
                          /\ antes[i].id = id =>
                                /\ depois[i].rec.created_at = antes[i].rec.created_at
                                /\ \A campo \in CamposPut :
                                      ~Fornecido(data, campo)
                                         => depois[i].rec[campo] = antes[i].rec[campo]
          /\ (pc[t] = "acc_dump" /\ mut[t].op = "put") => accountsFile' = accounts[t]]_vars

\* a PUT of the name alone went through: the long key and the rest stand
C11_Witness ==
    /\ \E t \in Threads : resp[t].op = "put" /\ resp[t].code = 200
    /\ Len(accountsFile) = 2
    /\ DictGet(accountsFile, <<0, 1>>) = [ContaLonga.rec EXCEPT !.name = "B"]
    /\ DictGet(accountsFile, <<0, 0>>) = ContaA.rec

\* C12: a PUT sets every field its body names to the value given, the empty
\* string included, for each of the five fields.
C12_PutSetsNamedFields ==
    [][\A t \in Threads :
          PutAceito(t) =>
             \A campo \in CamposPut :
                Fornecido(mut'[t].put, campo)
                   => DictGet(accounts'[t], mut'[t].id)[campo] = mut'[t].put[campo]]_vars

\* the credentials accounts hold under SpecAdmin
Credenciais == {ContaA.rec.crm_api_key, ContaLonga.rec.crm_api_key, "k3"}

\* C13: no answer to GET /api/accounts or GET /api/accounts/<account_id>
\* carries a credential in full, in the key field or in the preview.
C13_NoFullCredential ==
    \A t \in Threads :
        /\ \A i \in 1..Len(resp[t].accounts) :
              resp[t].accounts[i].crm_api_key_preview \notin Credenciais
        /\ \A i \in 1..Len(resp[t].account) :
              /\ resp[t].account[i].crm_api_key \notin Credenciais
              /\ resp[t].account[i].crm_api_key_preview \notin Credenciais

\* ========================================================== the extractor
\* extrair_cpf applied to one text.  The texts: a valid CPF, punctuated or
\* bare (or no CPF), then a separator, then up to MaxNoise noise digits.
CpfPontuado == <<"1", "1", "1", ".", "4", "4", "4", ".", "7", "7", "7", "-", "3", "5">>
CpfDigitos == so_numeros(CpfPontuado)

\* the noise digits
NoiseAlphabet == {"1", "9"}

RECURSIVE Ruidos(_)
\* the digit strings of length n over NoiseAlphabet
Ruidos(n) ==
    IF n = 0 THEN {<<>>}
    ELSE {r \o <<d>> : r \in Ruidos(n - 1), d \in NoiseAlphabet}

Textos ==
    {c \o s \o r : c \in {CpfPontuado, CpfDigitos, <<>>},
                   s \in {<<>>, <<" ">>, <<"/">>},
                   r \in UNION {Ruidos(n) : n \in 0..MaxNoise}}

InitText ==
    /\ InitStores(<<>>, <<>>, 1, 0, 0)
    /\ texto \in Textos
    /\ extraido = NaoExtraido

\* cpf = extrair_cpf(texto)
Extrair ==
    /\ ~extraido.done
    /\ extraido' = [done |-> TRUE, cpf |-> extrair_cpf(texto)]
    /\ UNCHANGED <<shared, now, pc, ret, req, conta, novo, accounts, logs_data, alog,
                   pending, resp, mut, ops, seq, appended, built, feitos, lim, texto>>

NextText == Extrair

SpecText == InitText /\ [][NextText]_vars

\* texto holds 14 digits in a row
TemCorrida14(txt) ==
    \E i \in 1..(Len(txt) - (CNPJ_LEN - 1)) :
        \A j \in i..(i + CNPJ_LEN - 1) : IsDigit(txt[j])

\* some 11-digit window of the digits of txt is a valid CPF
TemJanelaValida(txt) ==
    \E i \in Janelas(so_numeros(txt)) :
        validar_cpf_rapido(SubSeq(so_numeros(txt), i, i + WINDOW - 1))

\* C14: for a text with 14 digits in a row, or with exactly 14 digits in
\* all, extrair_cpf returns None, valid CPF window inside or not.
C14_CnpjPrecedence ==
    (extraido.done /\ (TemCorrida14(texto) \/ Len(so_numeros(texto)) = CNPJ_LEN))
        => extraido.cpf = <<>>

\* a run of more than 14 digits that starts with a valid CPF was refused
C14_Witness ==
    /\ extraido.done
    /\ TemCorrida14(texto)
    /\ Len(so_numeros(texto)) > CNPJ_LEN
    /\ TemJanelaValida(texto)
    /\ extraido.cpf = <<>>

\* the leftmost valid 11-digit window of a digit string holding one
JanelaEsquerda(numeros) ==
    LET i == CHOOSE j \in Janelas(numeros) :
                /\ validar_cpf_rapido(SubSeq(numeros, j, j + WINDOW - 1))
                /\ \A k \in Janelas(numeros) :
                      validar_cpf_rapido(SubSeq(numeros, k, k + WINDOW - 1)) => j <= k
    IN  SubSeq(numeros, i, i + WINDOW - 1)

\* the text is the punctuated CPF, then noise digits (after a separator or not)
CpfMaisRuido(txt) ==
    /\ Len(txt) >= Len(CpfPontuado)
    /\ SubSeq(txt, 1, Len(CpfPontuado)) = CpfPontuado

\* C15: for a punctuated valid CPF followed by noise digits, however many,
\* extrair_cpf returns the leftmost valid 11-digit window of the digits.
C15_TrailingNoise ==
    (extraido.done /\ CpfMaisRuido(texto))
        => /\ validar_cpf_rapido(extraido.cpf)
           /\ extraido.cpf = JanelaEsquerda(so_numeros(texto))

\* C15 as amended: for a punctuated valid CPF followed by noise digits that
\* detectar_cnpj does not take for a CNPJ (not 14 digits in all, no CNPJ
\* pattern), extrair_cpf returns the leftmost valid 11-digit window.
C15_TrailingNoiseNotCnpj ==
    (extraido.done /\ CpfMaisRuido(texto) /\ ~detectar_cnpj(texto))
        => /\ validar_cpf_rapido(extraido.cpf)
           /\ extraido.cpf = JanelaEsquerda(so_numeros(texto))

\* noise that makes a second valid window, and the CPF came back
C15_Witness ==
    /\ extraido.done
    /\ CpfMaisRuido(texto)
    /\ Len(so_numeros(texto)) > WINDOW
    /\ \E i \in Janelas(so_numeros(texto)) :
          i > 1 /\ validar_cpf_rapido(SubSeq(so_numeros(texto), i, i + WINDOW - 1))
    /\ extraido.cpf = CpfDigitos

\* ------------------------------------------------- order within a request
\* the collaborator calls
Chamadas == {"fetch", "lookup", "send"}

\* the events of answer r are in the order of the handler's steps
EmOrdem(r) ==
    LET ev == r.events
    IN  /\ \A i \in 1..Len(ev) :
              ev[i] = "lookup" =>
                 /\ r.cpf # <<>>
                 /\ validar_cpf_rapido(r.cpf)
                 /\ \A j \in (i + 1)..Len(ev) : ev[j] # "fetch"
        /\ \A i \in 1..Len(ev) :
              ev[i] = "send" =>
                 /\ \E j \in 1..(i - 1) : ev[j] = "format"
                 /\ \A j \in (i + 1)..Len(ev) : ev[j] \notin {"fetch", "lookup", "format"}
        /\ \A i \in 1..Len(ev) :
              ev[i] = "log" => \A j \in (i + 1)..Len(ev) : ev[j] \notin Chamadas

\* C16: in every webhook request, finished or under way, the CPF lookup
\* comes only after a CPF was extracted and validated, the send only after
\* the formatting, and no fetch, lookup or send comes after the log entry.
C16_StepOrder ==
    \A t \in Threads : EmOrdem(resp[t]) /\ EmOrdem(pending[t])

\* a request that went through every step, history fetch included
C16_Witness ==
    \E t \in Threads :
        /\ resp[t].op = "webhook"
        /\ resp[t].events = <<"fetch", "lookup", "format", "send", "log">>

\* ------------------------------------------------------ a load that fails
\* thread t's load_logs fell back to {}: the dict it is about to write holds
\* nothing but the entry it inserted (logs.json was open for writing, hence
\* empty, when it was read)
CarregouVazio(t) ==
    /\ Len(logs_data[t]) = 1
    /\ Len(logs_data[t][1].rec) = 1

\* entries logs.json held from the start that no trim can have dropped yet
EntradasAntigas == {EntradaAntiga(k).seq : k \in 1..(LOG_CAP - 1 - lim.ops)}

\* C17: when load_logs fails inside add_log and falls back to {}, the
\* entries persisted before are still in logs.json after add_log has written.
C17_FailedLoadKeepsSnapshot ==
    [][\A t \in Threads :
          (pc[t] = "logs_dump" /\ pc'[t] = "idle" /\ CarregouVazio(t))
              => EntradasAntigas \subseteq EntradasNoArquivo']_vars

\* ------------------------------------------------ templates str.format rejects
\* the template of the account thread t's last answer was made for
TemplateDaResposta(t) == DictGet(accountsFile, resp[t].account_id).message_template

\* thread t's last request reached formatar_mensagem with a lookup record,
\* and the account's template has a field 'dados' cannot fill
FormatouSemCampo(t) ==
    /\ resp[t].op = "webhook"
    /\ resp[t].resolved
    /\ DictHas(accountsFile, resp[t].account_id)
    /\ \E i \in 1..Len(resp[t].events) : resp[t].events[i] = "format"
    /\ resp[t].lookup_some
    /\ format_exception(TemplateDaResposta(t)) # "none"

\* C18: when the account's template has a replacement field the lookup data
\* does not fill (an unknown name or a position), the request is not answered
\* 500: it is answered 200 with the default template rendered on the data.
C18_TemplateFallback ==
    \A t \in Threads :
        FormatouSemCampo(t)
            => /\ resp[t].code = 200
               /\ resp[t].mensagem_formatada.linhas =
                      filtrar_linhas(render(DEFAULT_TEMPLATE,
                          montar_dados(resp[t].dados, resp[t].cpf,
                                       DictGet(accountsFile, resp[t].account_id).formato_cpf)))

\* ------------------------------------------------------ the Validate exit
\* the answer r did not leave through 'if not validar_cpf_rapido(cpf)'
SemSaidaValidate(r) ==
    /\ r.stage # "Validate"
    /\ ~(r.code = 400 /\ r.error = "CPF invalido")
    /\ \A i \in 1..Len(r.logged) : r.logged[i].detalhes # <<"CPF invalido">>
    /\ r.cpf # <<>> => (Len(r.cpf) = WINDOW /\ validar_cpf_rapido(r.cpf))

\* C19: the webhook never answers 400 'CPF invalido' and never logs
\* 'CPF invalido': every CPF it goes on with is 11 digits that
\* validar_cpf_rapido accepts, whatever the message and the history hold.
C19_ValidateUnreachable ==
    \A t \in Threads :
        /\ SemSaidaValidate(resp[t])
        /\ SemSaidaValidate(pending[t])
        /\ alog[t].detalhes # <<"CPF invalido">>

\* a request whose message holds eleven digits that are no CPF is on its
\* way out through 'CPF nao encontrado'
C19_Witness ==
    \E t \in Threads :
        /\ req[t].mensagem = TxtCpfInvalido
        /\ pending[t].stage = "ExtractIdentifier"
        /\ pending[t].code = 404
        /\ alog[t].detalhes = <<"CPF nao encontrado">>

\* ------------------------------------------- the log and the delivery flag
\* C20: for every webhook request answered with success, the request's log
\* entry has status 'Sucesso' exactly when the answer says mensagem_enviada
\* true, and 'Parcial' exactly when it says false, whatever
\* enviar_mensagem_conversa returned (None, an empty JSON value, an object).
C20_LogAgreesWithDelivery ==
    \A t \in Threads :
        (resp[t].op = "webhook" /\ resp[t].success)
            => /\ Len(resp[t].logged) = 1
               /\ resp[t].logged[1].status = "Sucesso" <=> resp[t].mensagem_enviada
               /\ resp[t].logged[1].status = "Parcial" <=> ~resp[t].mensagem_enviada

\* ============================================ requests without a credential
\* accounts.json holds account A; accounts are created with and without a
\* crm_api_key, and webhook requests arrive with and without a credential.
InitCred == InitWith(<<ContaA>>, <<>>, 1, CredOps, 0)

\* POST bodies: one with no 'crm_api_key', one with an empty one, one with a key
CredCreates ==
    {[name |-> "C", crm_api_key |-> Absent],
     [name |-> "D", crm_api_key |-> ""],
     [name |-> "E", crm_api_key |-> "k3"]}

\* webhook requests: no header and no body field, an empty body field, a key
CredPedidos ==
    {Pedido(Absent, Absent, "c1", Absent, Absent, TxtCpf),
     Pedido(Absent, "", "c1", Absent, Absent, TxtCpf),
     Pedido("k1", Absent, "c1", Absent, Absent, TxtCpf)}

NextCred ==
    \/ \E data \in CredCreates : CreateLoad(1, data)
    \/ CreateBuild(1)
    \/ SaveAccountsOpen(1)
    \/ SaveAccountsDump(1)
    \/ \E r \in CredPedidos : WebhookResolve(1, r)
    \/ \E fetch \in HookFetch, token \in HookTokens, lookup \in HookLookup,
          envio \in HookEnvio : WebhookRun(1, fetch, token, lookup, envio)
    \/ AddLogLoad(1)
    \/ AddLogInsert(1)
    \/ SaveLogsOpen(1)
    \/ SaveLogsDump(1)

SpecCred == InitCred /\ [][NextCred]_vars

\* C21: a webhook request with no X-CRM-API-Key header and no crm_api_key
\* body field resolves to no account and is answered 401, whatever accounts
\* accounts.json holds, accounts created without a credential included.
C21_NoCredential401 ==
    \A t \in Threads :
        /\ (pc[t] = "wh_run" /\ req[t].header = Absent /\ req[t].crm_api_key = Absent)
              => ~conta[t].found
        /\ (resp[t].op = "webhook" /\ resp[t].api_key = "")
              => (resp[t].code = 401 /\ ~resp[t].resolved)

====
